---- MODULE Spec2Model ----
(***************************************************************************)
(* Model of the PyBlender agent: the MCP client that talks to the Blender  *)
(* child process over pipes (src/main.py, src/agent/main.py), the          *)
(* orchestration loop of main(), the model gateway (src/agent/llm.py) and  *)
(* the pure helpers (schema lowering, artifact name sanitization).         *)
(*                                                                         *)
(* Strings whose content matters are sequences of one-character strings    *)
(* or of tokens, so that len(), join() and per-character maps are          *)
(* computed rather than assumed.                                           *)
(***************************************************************************)
EXTENDS Integers, Sequences, FiniteSets, TLC

(***************************************************************************)
(* Bounds of the model.                                                    *)
(***************************************************************************)
MaxTurns == 2        \* user turns started in one run
MaxRespId == 3       \* ids the child may put on a response line: 1..MaxRespId
MaxBlocks == 1       \* content blocks in one tools/call result
MaxCalls == 2        \* structured calls in one provider response
MaxPlanLen == 2      \* subtasks in one plan
MaxNameLen == 3      \* characters of a material name (pure-function check)
MaxDepth == 2        \* nesting depth of a tool schema (pure-function check)
MaxCloses == 2       \* client.close() calls in one run of the client harness
MaxRequests == 2     \* requests the tool server handles in one run
MaxMessages == 7     \* length of the gateway's history beyond which no call is made
MaxOps == 2          \* operations wrapped in a Spinner in one run of the spinner harness

(***************************************************************************)
(* Program constants.                                                      *)
(***************************************************************************)
MAX_LOOPS == 10

VARIABLES
    entry,          \* which main() runs: "root" = src/main.py, "agent" = src/agent/main.py
    provider,       \* LLM_PROVIDER: "gemini" | "openai"
    pc,             \* position of the controller inside main()
    process,        \* client.process: "none" | "running" | "terminated"
    request_id,     \* client.request_id
    sent,           \* every line written to the child's stdin, in order
    eof,            \* the child's stdout has reported end of stream
    resp,           \* the message last returned by _waiting_response
    awaited,        \* id of the request that was outstanding when resp was returned
    init_id,        \* id of the message returned to start(), 0 while none was
    cause,          \* where the exception that ended the run was raised, or "none"
    response_text,  \* main: response_text
    func_call,      \* main: func_call
    loop_count,     \* main: loop_count
    tool_result,    \* main: tool_result / result
    raised,         \* the exception call_tool raised in this iteration, or NoExc
    fed,            \* arguments of the last send_tool_result call of the turn
    fedCount,       \* send_tool_result calls of the current turn
    toolCalls,      \* call_tool invocations of the current turn
    turns,          \* turns started so far
    turnEnd,        \* how the last turn ended: "none" | "normal" | "aborted"
    material_name,  \* logger.material_name (None = <<>> with named = FALSE)
    named,          \* logger.material_name is not None
    saves,          \* logger.save() calls of the current turn
    filename,       \* the file the last logger.save() of the turn wrote, <<>> if none
    created,        \* name arguments of the create_procedural_material calls of the turn, in order
    plan,           \* main: plan
    taskIdx,        \* index of the next plan entry to query
    aggregated,     \* main: aggregated_context, in the set's iteration order
    blocks,         \* list(aggregated_context) as joined into final_context
    chunks,         \* the chunk rag.query returned for each plan entry so far
    schema,         \* input of _sanitize_schema (pure-function check)
    lowered,        \* _sanitize_schema(schema)
    name,           \* input of the artifact name sanitization (pure-function check)
    safe_server,    \* safe_name computed by create_procedural_material
    safe_logger,    \* safe_name computed by GenerationLogger.save
    gw,             \* gateway harness: a provider response and what the gateway returned for it
    closes,         \* client.close() calls made so far (client harness)
    close_exc,      \* the exception the last client.close() raised, or NoExc
    srv_running,    \* the tool server's main loop has not ended
    srv_req,        \* what the tool server handled last: a request, or the end of its stdin
    srv_out,        \* the lines the tool server wrote to its stdout, in order
    warned,         \* the loop-limit warning was reported at the end of this turn's tool loop
    history,        \* LLMClient.history (openai): the messages, in order
    sp_event,       \* Spinner.stop_event is set
    sp_alive,       \* worker threads of the Spinner that are alive
    sp_frame,       \* position of the worker in its cycle of frames
    sp_ops,         \* operations the controller has wrapped in a Spinner so far
    sp_path         \* how the wrapped operation ended: "none" | "normal" | "raised"

ctlVars == <<entry, provider, pc, process, request_id, sent, eof, resp, awaited, init_id, cause>>
turnVars == <<response_text, func_call, loop_count, tool_result, raised, fed, fedCount, toolCalls,
              turns, turnEnd>>
logVars == <<material_name, named, saves, filename, created, warned>>
ragVars == <<plan, taskIdx, aggregated, blocks, chunks>>
pureVars == <<schema, lowered, name, safe_server, safe_logger>>
closeVars == <<closes, close_exc>>
srvVars == <<srv_running, srv_req, srv_out>>
spinVars == <<sp_event, sp_alive, sp_frame, sp_ops, sp_path>>
sideVars == <<closeVars, srvVars, spinVars>>
llmVars == <<gw, history>>
vars == <<ctlVars, turnVars, logVars, ragVars, pureVars, llmVars, sideVars>>

(***************************************************************************)
(* Strings.                                                                *)
(***************************************************************************)
NoStr == <<>>

RECURSIVE Join(_)
\* "\n".join(parts): the parts in order, separated by a newline
Join(parts) ==
    IF parts = <<>> THEN <<>>
    ELSE IF Len(parts) = 1 THEN parts[1]
    ELSE parts[1] \o <<"\n">> \o Join(Tail(parts))

Range(f) == {f[i] : i \in DOMAIN f}

SeqsUpTo(S, n) == UNION {[1..k -> S] : k \in 0..n}

(***************************************************************************)
(* Lines the child may write on its stdout, as json.loads sees them.       *)
(***************************************************************************)
BlockTexts == {<<"boom">>}

\* one element of result.content
Blocks ==
    {[hasType |-> TRUE, type |-> "text", hasText |-> TRUE, text |-> t] : t \in BlockTexts}
    \cup {[hasType |-> TRUE, type |-> "image", hasText |-> FALSE, text |-> NoStr],
          [hasType |-> TRUE, type |-> "text", hasText |-> FALSE, text |-> NoStr],
          [hasType |-> FALSE, type |-> "none", hasText |-> TRUE, text |-> <<"boom">>]}

NoBody == [p |-> "none", hasMsg |-> FALSE, msg |-> NoStr, content |-> <<>>, isError |-> FALSE]

\* the members of a response object besides "id"
Bodies ==
    {[p |-> "error", hasMsg |-> h, msg |-> m, content |-> <<>>, isError |-> FALSE] :
        h \in BOOLEAN, m \in {<<"Tool not found">>}}
    \cup {[p |-> "result", hasMsg |-> FALSE, msg |-> NoStr, content |-> c, isError |-> e] :
        c \in SeqsUpTo(Blocks, MaxBlocks), e \in BOOLEAN}
    \cup {[p |-> "noresult", hasMsg |-> FALSE, msg |-> NoStr, content |-> <<>>, isError |-> FALSE],
          [p |-> "nullresult", hasMsg |-> FALSE, msg |-> NoStr, content |-> <<>>, isError |-> FALSE]}

\* k: "eof"     readline() returned ''
\*    "badjson" not JSON
\*    "list"    a JSON array or string that does not contain "id"
\*    "scalar"  a JSON number, true, false or null
\*    "strid"   a JSON string or array that contains "id"
\*    "notif"   a JSON object without "id"
\*    "resp"    a JSON object with "id"
Lines ==
    {[k |-> kind, id |-> 0, body |-> NoBody] :
        kind \in {"eof", "badjson", "list", "scalar", "strid", "notif"}}
    \cup {[k |-> "resp", id |-> i, body |-> b] : i \in 1..MaxRespId, b \in Bodies}

NoResp == [k |-> "none", id |-> 0, body |-> NoBody]

(***************************************************************************)
(* Exceptions: NoExc, or the text str(e) of the exception.                 *)
(***************************************************************************)
NoExc == <<>>
Exc(text) == <<text>>

(***************************************************************************)
(* BlenderMCPClient                                                        *)
(***************************************************************************)
\* the line _send_request writes for the request numbered id
Request(method, id) == [method |-> method, hasId |-> TRUE, id |-> id]

\* the line _send_notification writes
Notification(method) == [method |-> method, hasId |-> FALSE, id |-> 0]

\* WaitStep without the comparison of the id: any object with an "id" is returned
WaitStep_AnyId(line, rid) ==
    CASE line.k = "eof" -> [out |-> "raise", exc |-> Exc("Server closed connection")]
      [] line.k = "badjson" -> [out |-> "skip", exc |-> NoExc]
      [] line.k = "scalar" -> [out |-> "raise", exc |-> Exc("argument of type is not iterable")]
      [] line.k = "list" -> [out |-> "skip", exc |-> NoExc]
      [] line.k = "strid" -> [out |-> "raise", exc |-> Exc("indices must be integers")]
      [] line.k = "notif" -> [out |-> "skip", exc |-> NoExc]
      [] OTHER -> [out |-> "return", exc |-> NoExc]

\* WaitStep that returns at end of stream instead of raising
WaitStep_EofReturns(line, rid) ==
    CASE line.k = "eof" -> [out |-> "return", exc |-> NoExc]
      [] line.k = "badjson" -> [out |-> "skip", exc |-> NoExc]
      [] line.k = "scalar" -> [out |-> "raise", exc |-> Exc("argument of type is not iterable")]
      [] line.k = "list" -> [out |-> "skip", exc |-> NoExc]
      [] line.k = "strid" -> [out |-> "raise", exc |-> Exc("indices must be integers")]
      [] line.k = "notif" -> [out |-> "skip", exc |-> NoExc]
      [] OTHER ->
            IF line.id = rid THEN [out |-> "return", exc |-> NoExc]
            ELSE [out |-> "skip", exc |-> NoExc]

\* WaitStep that reads on at end of stream instead of raising
WaitStep_EofSkips(line, rid) ==
    CASE line.k = "eof" -> [out |-> "skip", exc |-> NoExc]
      [] line.k = "badjson" -> [out |-> "skip", exc |-> NoExc]
      [] line.k = "scalar" -> [out |-> "raise", exc |-> Exc("argument of type is not iterable")]
      [] line.k = "list" -> [out |-> "skip", exc |-> NoExc]
      [] line.k = "strid" -> [out |-> "raise", exc |-> Exc("indices must be integers")]
      [] line.k = "notif" -> [out |-> "skip", exc |-> NoExc]
      [] OTHER ->
            IF line.id = rid THEN [out |-> "return", exc |-> NoExc]
            ELSE [out |-> "skip", exc |-> NoExc]

\* One iteration of the loop of _waiting_response on the line just read:
\* "return" hands the message to the caller, "skip" reads on, "raise" raises.
WaitStep(line, rid) ==
    CASE line.k = "eof" -> [out |-> "raise", exc |-> Exc("Server closed connection")]
      [] line.k = "badjson" -> [out |-> "skip", exc |-> NoExc]
      [] line.k = "scalar" -> [out |-> "raise", exc |-> Exc("argument of type is not iterable")]
      [] line.k = "list" -> [out |-> "skip", exc |-> NoExc]
      [] line.k = "strid" -> [out |-> "raise", exc |-> Exc("indices must be integers")]
      [] line.k = "notif" -> [out |-> "skip", exc |-> NoExc]
      [] OTHER ->
            IF line.id = rid THEN [out |-> "return", exc |-> NoExc]
            ELSE [out |-> "skip", exc |-> NoExc]

RECURSIVE TextRes(_)
\* [c["text"] for c in content if c["type"] == "text"], evaluated in order
TextRes(content) ==
    IF content = <<>> THEN [ok |-> TRUE, texts |-> <<>>, exc |-> NoExc]
    ELSE LET c == Head(content)
             rest == TextRes(Tail(content))
         IN IF ~c.hasType THEN [ok |-> FALSE, texts |-> <<>>, exc |-> Exc("'type'")]
            ELSE IF c.type # "text" THEN rest
            ELSE IF ~c.hasText THEN [ok |-> FALSE, texts |-> <<>>, exc |-> Exc("'text'")]
            ELSE IF ~rest.ok THEN rest
            ELSE [ok |-> TRUE, texts |-> <<c.text>> \o rest.texts, exc |-> NoExc]

\* call_tool after _waiting_response returned r: the string it returns, or
\* the exception it raises
ParseResponse(r) ==
    LET b == r.body IN
    IF b.p = "error"
    THEN IF b.hasMsg THEN [ok |-> TRUE, text |-> <<"Error: ">> \o b.msg, exc |-> NoExc]
         ELSE [ok |-> FALSE, text |-> NoStr, exc |-> Exc("'message'")]
    ELSE IF b.p = "nullresult"
    THEN [ok |-> FALSE, text |-> NoStr, exc |-> Exc("object has no attribute 'get'")]
    ELSE LET t == TextRes(b.content) IN
         IF t.ok THEN [ok |-> TRUE, text |-> Join(t.texts), exc |-> NoExc]
         ELSE [ok |-> FALSE, text |-> NoStr, exc |-> t.exc]


(***************************************************************************)
(* What a provider SDK hands to LLMClient for one request.                 *)
(***************************************************************************)
ToolNames == {"create_procedural_material", "list_materials"}
MatNames == {<<"S", "1">>, <<"R", "#">>}
CallIds == {"call_1"}
\* the text of a provider response; an absent or unreadable text is the
\* BadKinds case "text"
Texts == {<<"O", "K">>}

\* one structured call of a provider response
Calls ==
    {[name |-> n, hasArg |-> TRUE, arg |-> m, id |-> i] :
        n \in ToolNames, m \in MatNames, i \in CallIds}
    \cup {[name |-> n, hasArg |-> FALSE, arg |-> NoStr, id |-> i] : n \in ToolNames, i \in CallIds}

\* bad: "ok"    a well-formed response
\*      "api"   the request itself raises
\*      "parts" the parts / choices of the response cannot be read
\*      "text"  the text of the response cannot be read (openai: content is None)
\*      "both"  neither the parts nor the text can be read
\*      "args"  the arguments of its calls cannot be read or parsed
BadKinds == {"ok", "api", "parts", "text", "both", "args"}

Replies == [content : Texts, calls : SeqsUpTo(Calls, MaxCalls), bad : BadKinds]

(***************************************************************************)
(* LLMClient                                                               *)
(***************************************************************************)
NoCall == [kind |-> "none", name |-> "none", hasArg |-> FALSE, arg |-> NoStr, id |-> "none"]

\* {"name": ..., "args": ...} as send_message builds it for gemini (no "id")
GeminiCall(c) == [kind |-> "dict", name |-> c.name, hasArg |-> c.hasArg, arg |-> c.arg, id |-> "none"]

\* {"name": ..., "args": ..., "id": ...} as send_message builds it for openai
OpenAICall(c) == [kind |-> "dict", name |-> c.name, hasArg |-> c.hasArg, arg |-> c.arg, id |-> c.id]

\* a str bound to func_call
StrCall(ch) == [kind |-> "str", name |-> ch, hasArg |-> FALSE, arg |-> NoStr, id |-> "none"]

Returned(text, fc) == [ok |-> TRUE, text |-> text, fc |-> fc, exc |-> NoExc]
Raises(e) == [ok |-> FALSE, text |-> NoStr, fc |-> NoCall, exc |-> Exc(e)]

\* send_message, gemini branch
send_message_gemini(r) ==
    IF r.bad = "api" THEN Raises("provider request failed")
    ELSE IF r.bad \in {"parts", "both"} THEN Returned(NoStr, NoCall)
    ELSE IF r.bad = "args" /\ r.calls # <<>> THEN Returned(NoStr, NoCall)
    ELSE IF r.calls = <<>>
         THEN Returned(IF r.bad = "text" THEN NoStr ELSE r.content, NoCall)
         ELSE Returned(IF r.bad = "text" THEN NoStr ELSE r.content,
                       GeminiCall(r.calls[Len(r.calls)]))

\* send_message, openai branch
send_message_openai(r) ==
    IF r.bad = "api" THEN Raises("provider request failed")
    ELSE IF r.bad \in {"parts", "both"} THEN Raises("list index out of range")
    ELSE IF r.calls = <<>>
         THEN Returned(IF r.bad = "text" THEN NoStr ELSE r.content, NoCall)
         ELSE IF r.bad = "args" THEN Raises("Expecting value")
         ELSE Returned(IF r.bad = "text" THEN NoStr ELSE r.content, OpenAICall(r.calls[1]))

send_message(prov, r) ==
    IF prov = "gemini" THEN send_message_gemini(r) ELSE send_message_openai(r)

\* values send_tool_result can return: a str, None, or a (text, call) pair
RetStr(s) == [t |-> "str", s |-> s, fc |-> NoCall]
RetNone == [t |-> "none", s |-> NoStr, fc |-> NoCall]
RetPair(s, fc) == [t |-> "pair", s |-> s, fc |-> fc]

ToolReturned(v) == [ok |-> TRUE, ret |-> v, exc |-> NoExc]
ToolRaises(e) == [ok |-> FALSE, ret |-> RetNone, exc |-> Exc(e)]

\* send_tool_result, gemini branch
send_tool_result_gemini(r) ==
    IF r.bad = "api" THEN ToolRaises("provider request failed")
    ELSE IF r.bad = "both"
         THEN ToolRaises("local variable 'text_response' referenced before assignment")
    ELSE IF r.bad = "parts" THEN ToolReturned(RetStr(r.content))
    ELSE IF r.bad = "args" /\ r.calls # <<>> THEN ToolReturned(RetStr(r.content))
    ELSE ToolReturned(RetStr(IF r.bad = "text" THEN NoStr ELSE r.content))

\* send_tool_result, openai branch
send_tool_result_openai(r) ==
    IF r.bad = "api" THEN ToolRaises("provider request failed")
    ELSE IF r.bad \in {"parts", "both"} THEN ToolRaises("list index out of range")
    ELSE IF r.bad = "text" THEN ToolReturned(RetNone)
    ELSE ToolReturned(RetStr(r.content))

send_tool_result(prov, r) ==
    IF prov = "gemini" THEN send_tool_result_gemini(r) ELSE send_tool_result_openai(r)


(***************************************************************************)
(* Retrieval (rag.query is the vector backend; generate_plan is the        *)
(* planning call of the gateway)                                           *)
(***************************************************************************)
Tasks == {"task_a", "task_b"}

\* the values llm.generate_plan can return: an ordered list of subtask strings
\* (LLMClient in agent/llm.py has no such method; the planning call is
\* taken from the specification of the retrieval aggregator)
generate_plan == SeqsUpTo(Tasks, MaxPlanLen)
Chunks == {NoStr, <<"ctx_a">>, <<"ctx_b">>}

\* SetAdd as list.append: the chunk is added whether or not it is present
SetAdd_Append(agg, chunk) == {Append(agg, chunk)}

\* aggregated_context.add(chunk) on a Python set: the set is kept as the
\* sequence of its members in iteration order, which the hash table decides;
\* a member already present is not added again
SetAdd(agg, chunk) ==
    IF chunk \in Range(agg) THEN {agg}
    ELSE {SubSeq(agg, 1, i) \o <<chunk>> \o SubSeq(agg, i + 1, Len(agg)) : i \in 0..Len(agg)}

\* if chunk: aggregated_context.add(chunk)
Aggregate(agg, chunk) == IF chunk = NoStr THEN {agg} ELSE SetAdd(agg, chunk)

(***************************************************************************)
(* Artifact names: the per-character map of safe_name                      *)
(***************************************************************************)
\* characters for which str.isalnum() is true
AlnumChars == {"S", "h", "i", "n", "y", "R", "e", "d", "1", "E'"}

\* c.isalnum()
isalnum(c) == c \in AlnumChars

\* the example of the specification and its sanitized form
ShinyRed == <<"S", "h", "i", "n", "y", " ", "R", "e", "d", " ", "#", "1">>
ShinyRedSafe == <<"S", "h", "i", "n", "y", "_", "R", "e", "d", "_", "_", "1">>

\* the characters material names are drawn from
NameChars == {"S", "1", "E'", " ", "#", "_"}

\* the server's character map with '-' as the replacement
ServerChar_Dash(c) == IF isalnum(c) THEN c ELSE "-"

\* c if c.isalnum() else "_"  (utils.py)
ServerChar(c) == IF isalnum(c) THEN c ELSE "_"

\* c if c.isalnum() else "_"  (main.py)
LoggerChar(c) == IF isalnum(c) THEN c ELSE "_"

\* "".join([... for c in name])  (utils.py)
ServerSafeName(nm) == [i \in DOMAIN nm |-> ServerChar(nm[i])]

\* "".join([... for c in self.material_name])  (main.py)
LoggerSafeName(nm) == [i \in DOMAIN nm |-> LoggerChar(nm[i])]

(***************************************************************************)
(* main(): the controller                                                  *)
(***************************************************************************)
Truthy(fc) == fc.kind # "none"

\* no gateway call has been made
NoGw == [op |-> "none", reply |-> [content |-> NoStr, calls |-> <<>>, bad |-> "ok"],
         out |-> "none", text |-> NoStr, fc |-> NoCall]

NoRequest == [n |-> 0, method |-> "none", hasId |-> FALSE, id |-> 0, tool |-> "none",
              fault |-> "none"]

\* CapturesName without the test of the tool name
CapturesName_AnyTool(fc) == fc.hasArg

\* if fname == "create_procedural_material" and "name" in fargs
CapturesName(fc) == fc.name = "create_procedural_material" /\ fc.hasArg

\* logger.set_material_name(name)
set_material_name(nm) == material_name' = nm /\ named' = TRUE

\* the name GenerationLogger.save gives the file when no material was named
TimestampName == <<"output/", "Generation_Log_", "%Y%m%d_%H%M%S", ".md">>

\* LogFileName without the test of self.material_name
LogFileName_AlwaysNamed(mn, isNamed) == <<"output/">> \o LoggerSafeName(mn) \o <<"_Log.md">>

\* filename as GenerationLogger.save computes it
LogFileName(mn, isNamed) ==
    IF isNamed /\ mn # NoStr
    THEN <<"output/">> \o LoggerSafeName(mn) \o <<"_Log.md">>
    ELSE TimestampName

\* logger.save()
save ==
    /\ saves' = saves + 1
    /\ filename' = LogFileName(material_name, named)

\* response_text, func_call = <value returned by send_tool_result>
Unpack(v) ==
    IF v.t = "pair" THEN Returned(v.s, v.fc)
    ELSE IF v.t = "str" /\ Len(v.s) = 2 THEN Returned(<<v.s[1]>>, StrCall(v.s[2]))
    ELSE IF v.t = "str" THEN Raises("not enough or too many values to unpack")
    ELSE Raises("cannot unpack non-iterable NoneType object")

\* Popen.terminate(): SIGTERM to a child that has not ended yet; for a child
\* that has ended send_signal returns without signalling
terminate(p) == IF p = "running" THEN "terminated" ELSE p

\* close without the test of self.process
close_NoGuard(p) ==
    IF p = "none" THEN [process |-> p, exc |-> Exc("'NoneType' object has no attribute 'terminate'")]
    ELSE [process |-> terminate(p), exc |-> NoExc]

\* close with the test of self.process inverted
close_InvertedTest(p) ==
    IF p = "none" THEN [process |-> p, exc |-> Exc("'NoneType' object has no attribute 'terminate'")]
    ELSE [process |-> p, exc |-> NoExc]

\* client.close(): if self.process: self.process.terminate()
close(p) ==
    IF p # "none" THEN [process |-> terminate(p), exc |-> NoExc]
    ELSE [process |-> p, exc |-> NoExc]

\* except Exception as e: print(...) / finally: client.close()
Unwind(inTurn, why) ==
    /\ pc' = "exited"
    /\ cause' = why
    /\ process' = close(process).process
    /\ turnEnd' = IF inTurn THEN "aborted" ELSE turnEnd

\* FedBack that passes no correlation token
FedBack_NoToken(fc, result) == [name |-> fc.name, result |-> result, token |-> "none"]

\* FedBack that passes an empty result
FedBack_NoResult(fc, result) == [name |-> fc.name, result |-> NoStr, token |-> fc.id]

\* the (tool name, result, correlation token) of one send_tool_result call
FedBack(fc, result) == [name |-> fc.name, result |-> result, token |-> fc.id]
NoFed == [name |-> "none", result |-> NoStr, token |-> "none"]

\* tool_result = f"Error executing tool: {e}"
ErrorResult(e) == <<"Error executing tool: ">> \o e

\* the id of the request the client wrote last
LastRequestId(out) ==
    LET ids == {i \in DOMAIN out : out[i].hasId} IN
    IF ids = {} THEN 0 ELSE out[CHOOSE i \in ids : \A j \in ids : j <= i].id

\* WarnTest with the comparison turned round
WarnTest_AtMost(lc) == lc <= MAX_LOOPS

\* if loop_count >= MAX_LOOPS: the warning is reported
WarnTest(lc) == lc >= MAX_LOOPS

\* while func_call and loop_count < MAX_LOOPS
LoopTest(fc, lc) == Truthy(fc) /\ lc < MAX_LOOPS

\* main() from the moment a (text, call) pair has been obtained up to the next
\* blocking operation: the loop test, then either the head of the loop body
\* up to the request call_tool writes, or the end of the turn
AfterReply(text, fc, lc) ==
    /\ response_text' = text
    /\ func_call' = fc
    /\ raised' = NoExc
    /\ IF LoopTest(fc, lc)
       THEN IF fc.kind = "str"
            THEN \* func_call["name"] on a str
                 /\ loop_count' = lc + 1
                 /\ Unwind(TRUE, "subscript")
                 /\ UNCHANGED <<request_id, sent, toolCalls, logVars>>
            ELSE /\ loop_count' = lc + 1
                 /\ IF entry = "root" /\ CapturesName(fc)
                    THEN set_material_name(fc.arg)
                    ELSE UNCHANGED <<material_name, named>>
                 /\ created' = IF fc.name = "create_procedural_material" /\ fc.hasArg
                               THEN Append(created, fc.arg) ELSE created
                 /\ request_id' = request_id + 1
                 /\ sent' = Append(sent, Request("tools/call", request_id + 1))
                 /\ toolCalls' = toolCalls + 1
                 /\ pc' = "tool_wait"
                 /\ UNCHANGED <<process, turnEnd, cause, saves, filename, warned>>
       ELSE /\ loop_count' = lc
            /\ warned' = WarnTest(lc)
            /\ IF entry = "root" THEN save ELSE UNCHANGED <<saves, filename>>
            /\ turnEnd' = "normal"
            /\ pc' = "idle"
            /\ UNCHANGED <<process, cause, request_id, sent, toolCalls, material_name, named,
                           created>>

\* Start that writes the initialized notification without waiting for the reply
Start_NotifyEarly ==
    /\ pc = "boot"
    /\ process' = "running"
    /\ request_id' = request_id + 1
    /\ sent' = sent \o <<Request("initialize", request_id + 1),
                         Notification("notifications/initialized")>>
    /\ pc' = "hs_wait"
    /\ UNCHANGED <<turnEnd, cause>>
    /\ UNCHANGED <<entry, provider, eof, resp, awaited, init_id>>
    /\ UNCHANGED <<response_text, func_call, loop_count, tool_result, raised, fed, fedCount, toolCalls, turns>>
    /\ UNCHANGED <<logVars, ragVars, pureVars, llmVars, sideVars>>

\* client.start(): Popen, then the initialize request
Start ==
    /\ pc = "boot"
    /\ \/ /\ process' = "running"
          /\ request_id' = request_id + 1
          /\ sent' = Append(sent, Request("initialize", request_id + 1))
          /\ pc' = "hs_wait"
          /\ UNCHANGED <<turnEnd, cause>>
       \/ \* Popen raises: the executable cannot be started
          /\ Unwind(FALSE, "popen")
          /\ UNCHANGED <<request_id, sent>>
    /\ UNCHANGED <<entry, provider, eof, resp, awaited, init_id>>
    /\ UNCHANGED <<response_text, func_call, loop_count, tool_result, raised, fed, fedCount, toolCalls, turns>>
    /\ UNCHANGED <<logVars, ragVars, pureVars, llmVars, sideVars>>

\* client.start(): one readline of _waiting_response, and on a match the
\* initialized notification
HandshakeRead ==
    /\ pc = "hs_wait"
    /\ \E line \in Lines :
        /\ eof => line.k = "eof"
        /\ eof' = (line.k = "eof")
        /\ LET w == WaitStep(line, request_id) IN
           CASE w.out = "skip" ->
                    UNCHANGED <<pc, process, sent, resp, awaited, init_id, turnEnd, cause>>
             [] w.out = "raise" ->
                    /\ Unwind(FALSE, "handshake")
                    /\ UNCHANGED <<sent, resp, awaited, init_id>>
             [] OTHER ->
                    \* start() drops the message; its id is kept for the record
                    /\ resp' = [line EXCEPT !.body = NoBody]
                    /\ awaited' = LastRequestId(sent)
                    /\ init_id' = line.id
                    /\ sent' = Append(sent, Notification("notifications/initialized"))
                    /\ pc' = "llm_init"
                    /\ UNCHANGED <<process, turnEnd, cause>>
    /\ UNCHANGED <<entry, provider, request_id>>
    /\ UNCHANGED <<response_text, func_call, loop_count, tool_result, raised, fed, fedCount, toolCalls, turns>>
    /\ UNCHANGED <<logVars, ragVars, pureVars, llmVars, sideVars>>

\* LLMClient(...) and, in src/main.py, RAGClient(...): a missing credential raises
ClientsInit ==
    /\ pc = "llm_init"
    /\ \/ pc' = "idle" /\ UNCHANGED <<process, turnEnd, cause>>
       \/ Unwind(FALSE, "init")
    /\ UNCHANGED <<entry, provider, request_id, sent, eof, resp, awaited, init_id>>
    /\ UNCHANGED <<response_text, func_call, loop_count, tool_result, raised, fed, fedCount, toolCalls, turns>>
    /\ UNCHANGED <<logVars, ragVars, pureVars, llmVars, sideVars>>

\* input() returned quit or exit: break, then finally: client.close()
Quit ==
    /\ pc = "idle"
    /\ pc' = "exited"
    /\ process' = close(process).process
    /\ UNCHANGED <<entry, provider, request_id, sent, eof, resp, awaited, init_id, cause>>
    /\ UNCHANGED <<turnVars, logVars, ragVars, pureVars, llmVars, sideVars>>

\* input() returned a request: a turn starts. src/main.py makes a new logger
\* and asks for a plan; src/agent/main.py sends the input to the gateway.
\* The locals of the previous turn are assigned before they are read again.
UserInput ==
    /\ pc = "idle"
    /\ turns < MaxTurns
    /\ turns' = turns + 1
    /\ pc' = IF entry = "root" THEN "plan" ELSE "send"
    /\ turnEnd' = "none"
    /\ response_text' = NoStr /\ func_call' = NoCall /\ loop_count' = 0
    /\ tool_result' = NoStr /\ raised' = NoExc /\ fed' = NoFed /\ fedCount' = 0 /\ toolCalls' = 0
    /\ material_name' = NoStr /\ named' = FALSE /\ saves' = 0
    /\ filename' = NoStr /\ created' = <<>> /\ warned' = FALSE
    /\ plan' = <<>> /\ taskIdx' = 1 /\ aggregated' = <<>> /\ blocks' = <<>> /\ chunks' = <<>>
    /\ UNCHANGED <<entry, provider, process, request_id, sent, eof, resp, awaited, init_id, cause>>
    /\ UNCHANGED <<pureVars, llmVars, sideVars>>

\* plan = llm.generate_plan(user_input)
Plan ==
    /\ pc = "plan"
    /\ \/ \E p \in generate_plan :
            /\ plan' = p
            /\ pc' = IF p = <<>> THEN "send" ELSE "rag"
            /\ UNCHANGED <<process, turnEnd, cause>>
       \/ /\ Unwind(TRUE, "plan")
          /\ UNCHANGED plan
    /\ UNCHANGED <<entry, provider, request_id, sent, eof, resp, awaited, init_id>>
    /\ UNCHANGED <<response_text, func_call, loop_count, tool_result, raised, fed, fedCount, toolCalls, turns>>
    /\ UNCHANGED <<logVars, taskIdx, aggregated, blocks, chunks, pureVars, llmVars, sideVars>>

\* one pass of "for task in plan": rag.query, then the add; after the last
\* entry the join of list(aggregated_context)
RagQuery ==
    /\ pc = "rag"
    /\ \/ \E c \in Chunks : \E agg \in Aggregate(aggregated, c) :
            /\ chunks' = Append(chunks, c)
            /\ aggregated' = agg
            /\ taskIdx' = taskIdx + 1
            /\ IF taskIdx = Len(plan)
               THEN blocks' = agg /\ pc' = "send"
               ELSE UNCHANGED <<blocks, pc>>
            /\ UNCHANGED <<process, turnEnd, cause>>
       \/ /\ Unwind(TRUE, "rag")
          /\ UNCHANGED <<chunks, aggregated, taskIdx, blocks>>
    /\ UNCHANGED <<entry, provider, request_id, sent, eof, resp, awaited, init_id>>
    /\ UNCHANGED <<response_text, func_call, loop_count, tool_result, raised, fed, fedCount, toolCalls, turns>>
    /\ UNCHANGED <<logVars, plan, pureVars, llmVars, sideVars>>

\* llm.send_message(...) returns or raises; loop_count = 0; first loop test
SendMessage ==
    /\ pc = "send"
    /\ \E r \in Replies :
        LET m == send_message(provider, r) IN
        /\ IF m.ok
           THEN AfterReply(m.text, m.fc, 0)
           ELSE /\ Unwind(TRUE, "gateway")
                /\ UNCHANGED <<response_text, func_call, loop_count, raised, request_id, sent,
                               toolCalls, logVars>>
    \* plan, the chunks and the context are not read again once the prompt is sent
    /\ plan' = <<>> /\ taskIdx' = 1 /\ aggregated' = <<>> /\ blocks' = <<>> /\ chunks' = <<>>
    /\ UNCHANGED <<entry, provider, eof, resp, awaited, init_id>>
    /\ UNCHANGED <<tool_result, fed, fedCount, turns>>
    /\ UNCHANGED <<pureVars, llmVars, sideVars>>

\* call_tool: one readline of _waiting_response; on a match the parsing of
\* the response; then main's handling of the result or of the exception, up
\* to the call of send_tool_result
ToolRead ==
    /\ pc = "tool_wait"
    /\ \E line \in Lines :
        /\ eof => line.k = "eof"
        /\ eof' = (line.k = "eof")
        /\ LET w == WaitStep(line, request_id)
               parsed == ParseResponse(line)
               exc == IF w.out = "raise" THEN w.exc ELSE parsed.exc
           IN
           IF w.out = "skip"
           THEN UNCHANGED <<pc, process, resp, awaited, tool_result, raised, fed, fedCount, turnEnd, cause>>
           ELSE /\ IF w.out = "return"
                   THEN resp' = line /\ awaited' = LastRequestId(sent)
                   ELSE UNCHANGED <<resp, awaited>>
                /\ IF w.out = "return" /\ parsed.ok
                   THEN /\ tool_result' = parsed.text
                        /\ raised' = NoExc
                        /\ fed' = FedBack(func_call, parsed.text)
                        /\ fedCount' = fedCount + 1
                        /\ pc' = "feed"
                        /\ UNCHANGED <<process, turnEnd, cause>>
                   ELSE /\ raised' = exc
                        /\ IF entry = "root"
                           THEN \* except Exception as e
                                /\ tool_result' = ErrorResult(exc)
                                /\ fed' = FedBack(func_call, ErrorResult(exc))
                                /\ fedCount' = fedCount + 1
                                /\ pc' = "feed"
                                /\ UNCHANGED <<process, turnEnd, cause>>
                           ELSE \* try / finally without except
                                /\ Unwind(TRUE, "call_tool")
                                /\ UNCHANGED <<tool_result, fed, fedCount>>
    /\ UNCHANGED <<entry, provider, request_id, sent, init_id>>
    /\ UNCHANGED <<response_text, func_call, loop_count, toolCalls, turns>>
    /\ UNCHANGED <<logVars, ragVars, pureVars, llmVars, sideVars>>

\* Feed as the loop runs when the returned string is bound to response_text
\* alone, func_call keeps its value, and the loop test has no ceiling
Feed_Unbounded ==
    /\ pc = "feed"
    /\ \E r \in Replies :
        LET t == send_tool_result(provider, r) IN
        /\ IF t.ok
           THEN /\ response_text' = t.ret.s
                /\ raised' = NoExc
                /\ loop_count' = loop_count + 1
                /\ request_id' = request_id + 1
                /\ sent' = Append(sent, Request("tools/call", request_id + 1))
                /\ toolCalls' = toolCalls + 1
                /\ pc' = "tool_wait"
                /\ UNCHANGED <<func_call, process, turnEnd, cause, logVars>>
           ELSE /\ Unwind(TRUE, "gateway")
                /\ UNCHANGED <<response_text, func_call, loop_count, raised, request_id, sent,
                               toolCalls, logVars>>
    /\ UNCHANGED <<entry, provider, eof, resp, awaited, init_id>>
    /\ UNCHANGED <<tool_result, fed, fedCount, turns>>
    /\ UNCHANGED <<ragVars, pureVars, llmVars, sideVars>>

\* llm.send_tool_result(...) returns or raises; the unpacking into
\* (response_text, func_call); the next loop test
Feed ==
    /\ pc = "feed"
    /\ \E r \in Replies :
        LET t == send_tool_result(provider, r)
            u == Unpack(t.ret)
        IN
        /\ IF t.ok /\ u.ok
           THEN AfterReply(u.text, u.fc, loop_count)
           ELSE /\ Unwind(TRUE, IF t.ok THEN "unpack" ELSE "gateway")
                /\ UNCHANGED <<response_text, func_call, loop_count, raised, request_id, sent,
                               toolCalls, logVars>>
    /\ UNCHANGED <<entry, provider, eof, resp, awaited, init_id>>
    /\ UNCHANGED <<tool_result, fed, fedCount, turns>>
    /\ UNCHANGED <<ragVars, pureVars, llmVars, sideVars>>

Init ==
    /\ entry \in {"root", "agent"}
    /\ provider \in {"gemini", "openai"}
    /\ pc = "boot"
    /\ process = "none"
    /\ request_id = 0
    /\ sent = <<>>
    /\ eof = FALSE
    /\ resp = NoResp
    /\ awaited = 0
    /\ init_id = 0
    /\ cause = "none"
    /\ response_text = NoStr /\ func_call = NoCall /\ loop_count = 0
    /\ tool_result = NoStr /\ raised = NoExc /\ fed = NoFed /\ fedCount = 0 /\ toolCalls = 0
    /\ turns = 0 /\ turnEnd = "none"
    /\ material_name = NoStr /\ named = FALSE /\ saves = 0
    /\ filename = NoStr /\ created = <<>> /\ warned = FALSE
    /\ gw = NoGw
    /\ closes = 0 /\ close_exc = NoExc
    /\ history = <<>>
    /\ sp_event = FALSE /\ sp_alive = 0 /\ sp_frame = 0 /\ sp_ops = 0 /\ sp_path = "none"
    /\ srv_running = TRUE /\ srv_req = NoRequest /\ srv_out = <<>>
    /\ plan = <<>> /\ taskIdx = 1 /\ aggregated = <<>> /\ blocks = <<>> /\ chunks = <<>>
    /\ schema = NoStr /\ lowered = NoStr
    /\ name = NoStr /\ safe_server = NoStr /\ safe_logger = NoStr

Next ==
    \/ Start
    \/ HandshakeRead
    \/ ClientsInit
    \/ Quit
    \/ UserInput
    \/ Plan
    \/ RagQuery
    \/ SendMessage
    \/ ToolRead
    \/ Feed

Spec == Init /\ [][Next]_vars

(***************************************************************************)
(* LLMClient._sanitize_schema                                              *)
(*                                                                         *)
(* A schema value is a tagged node: a str, a dict (a function from its     *)
(* keys to nodes) or a list (a sequence of nodes).                         *)
(***************************************************************************)
StrNode(x) == [k |-> "str", v |-> x]
DictNode(f) == [k |-> "dict", v |-> f]
ListNode(q) == [k |-> "list", v |-> q]

StrVals == {"OBJECT", "object"}
Keys == {"type", "properties"}

\* str.swapcase() instead of str.lower()
PySwapCase(x) ==
    CASE x = "OBJECT" -> "object"
      [] x = "object" -> "OBJECT"
      [] OTHER -> x

\* str.lower()
PyLower(x) ==
    CASE x = "OBJECT" -> "object"
      [] x = "object" -> "object"
      [] OTHER -> x

RECURSIVE recurse(_)
\* recurse(d) of _sanitize_schema, as the value d has after the call
recurse(d) ==
    CASE d.k = "dict" ->
            LET typed == [key \in DOMAIN d.v |->
                            IF key = "type" /\ d.v[key].k = "str"
                            THEN StrNode(PyLower(d.v[key].v))
                            ELSE d.v[key]]
            IN DictNode([key \in DOMAIN typed |-> recurse(typed[key])])
      [] d.k = "list" -> ListNode([i \in DOMAIN d.v |-> recurse(d.v[i])])
      [] OTHER -> d

\* new_schema = copy.deepcopy(schema); recurse(new_schema); return new_schema
sanitize_schema(sch) == recurse(sch)

RECURSIVE SchemaSet(_)
\* the schemas of nesting depth at most d
SchemaSet(d) ==
    IF d = 0 THEN {StrNode(x) : x \in StrVals}
    ELSE LET sub == SchemaSet(d - 1) IN
         sub
         \cup {DictNode(f) : f \in UNION {[ks -> sub] : ks \in SUBSET Keys}}
         \cup {ListNode(<<>>)} \cup {ListNode(<<x>>) : x \in sub}

RECURSIVE IsSchema(_)
\* d is a value built from dicts, lists and strings
IsSchema(d) ==
    CASE d.k = "str" -> TRUE
      [] d.k = "dict" -> \A key \in DOMAIN d.v : IsSchema(d.v[key])
      [] d.k = "list" -> \A i \in DOMAIN d.v : IsSchema(d.v[i])
      [] OTHER -> FALSE

RECURSIVE HasUpperType(_)
\* some dict of d has a "type" that is a str and not lower-case
HasUpperType(d) ==
    CASE d.k = "dict" ->
            \/ ("type" \in DOMAIN d.v /\ d.v["type"].k = "str" /\ d.v["type"].v = "OBJECT")
            \/ \E key \in DOMAIN d.v : HasUpperType(d.v[key])
      [] d.k = "list" -> \E i \in DOMAIN d.v : HasUpperType(d.v[i])
      [] OTHER -> FALSE

\* a caller applies _sanitize_schema to a schema
Sanitize ==
    /\ pc = "schema"
    /\ lowered' = sanitize_schema(schema)
    /\ pc' = "schema_done"
    /\ UNCHANGED <<entry, provider, process, request_id, sent, eof, resp, awaited, init_id, cause>>
    /\ UNCHANGED <<turnVars, logVars, ragVars, schema, name, safe_server, safe_logger, llmVars, sideVars>>

InitSchema ==
    /\ entry = "root" /\ provider = "openai" /\ pc = "schema"
    /\ process = "none" /\ request_id = 0 /\ sent = <<>> /\ eof = FALSE
    /\ resp = NoResp /\ awaited = 0 /\ init_id = 0 /\ cause = "none"
    /\ response_text = NoStr /\ func_call = NoCall /\ loop_count = 0
    /\ tool_result = NoStr /\ raised = NoExc /\ fed = NoFed /\ fedCount = 0 /\ toolCalls = 0
    /\ turns = 0 /\ turnEnd = "none"
    /\ material_name = NoStr /\ named = FALSE /\ saves = 0
    /\ filename = NoStr /\ created = <<>> /\ warned = FALSE
    /\ gw = NoGw
    /\ closes = 0 /\ close_exc = NoExc
    /\ history = <<>>
    /\ sp_event = FALSE /\ sp_alive = 0 /\ sp_frame = 0 /\ sp_ops = 0 /\ sp_path = "none"
    /\ srv_running = TRUE /\ srv_req = NoRequest /\ srv_out = <<>>
    /\ plan = <<>> /\ taskIdx = 1 /\ aggregated = <<>> /\ blocks = <<>> /\ chunks = <<>>
    /\ schema \in SchemaSet(MaxDepth)
    /\ lowered = StrNode("object")
    /\ name = NoStr /\ safe_server = NoStr /\ safe_logger = NoStr

NextSchema == Sanitize

SpecSchema == InitSchema /\ [][NextSchema]_vars

(***************************************************************************)
(* Artifact name sanitization: safe_name in create_procedural_material     *)
(* (blender_server/utils.py) and in GenerationLogger.save (main.py)        *)
(***************************************************************************)
\* create_procedural_material computes safe_name for the material name
ServerSanitize ==
    /\ pc = "names"
    /\ safe_server' = ServerSafeName(name)
    /\ pc' = "names_server"
    /\ UNCHANGED <<entry, provider, process, request_id, sent, eof, resp, awaited, init_id, cause>>
    /\ UNCHANGED <<turnVars, logVars, ragVars, schema, lowered, name, safe_logger, llmVars, sideVars>>

\* GenerationLogger.save: if self.material_name: safe_name = ...
LoggerSanitize ==
    /\ pc = "names_server"
    /\ safe_logger' = IF name # NoStr THEN LoggerSafeName(name) ELSE safe_logger
    /\ pc' = "names_done"
    /\ UNCHANGED <<entry, provider, process, request_id, sent, eof, resp, awaited, init_id, cause>>
    /\ UNCHANGED <<turnVars, logVars, ragVars, schema, lowered, name, safe_server, llmVars, sideVars>>

InitNames ==
    /\ entry = "root" /\ provider \in {"gemini", "openai"} /\ pc = "names"
    /\ process = "none" /\ request_id = 0 /\ sent = <<>> /\ eof = FALSE
    /\ resp = NoResp /\ awaited = 0 /\ init_id = 0 /\ cause = "none"
    /\ response_text = NoStr /\ func_call = NoCall /\ loop_count = 0
    /\ tool_result = NoStr /\ raised = NoExc /\ fed = NoFed /\ fedCount = 0 /\ toolCalls = 0
    /\ turns = 0 /\ turnEnd = "none"
    /\ material_name = NoStr /\ named = FALSE /\ saves = 0
    /\ filename = NoStr /\ created = <<>> /\ warned = FALSE
    /\ gw = NoGw
    /\ closes = 0 /\ close_exc = NoExc
    /\ history = <<>>
    /\ sp_event = FALSE /\ sp_alive = 0 /\ sp_frame = 0 /\ sp_ops = 0 /\ sp_path = "none"
    /\ srv_running = TRUE /\ srv_req = NoRequest /\ srv_out = <<>>
    /\ plan = <<>> /\ taskIdx = 1 /\ aggregated = <<>> /\ blocks = <<>> /\ chunks = <<>>
    /\ schema = NoStr /\ lowered = NoStr
    /\ name \in SeqsUpTo(NameChars, MaxNameLen) \cup {ShinyRed}
    /\ safe_server = NoStr /\ safe_logger = NoStr

NextNames == ServerSanitize \/ LoggerSanitize

SpecNames == InitNames /\ [][NextNames]_vars


(***************************************************************************)
(* LLMClient.send_message and LLMClient.send_tool_result applied to one    *)
(* provider response                                                       *)
(***************************************************************************)
\* a caller applies send_message to the provider's response
GwSendMessage ==
    /\ pc = "gateway"
    /\ LET m == send_message(provider, gw.reply) IN
       gw' = [gw EXCEPT !.op = "send_message",
                        !.out = IF m.ok THEN "pair" ELSE "raise",
                        !.text = m.text, !.fc = m.fc]
    /\ pc' = "gateway_done"
    /\ UNCHANGED <<entry, provider, process, request_id, sent, eof, resp, awaited, init_id, cause>>
    /\ UNCHANGED <<turnVars, logVars, ragVars, pureVars, history, sideVars>>

\* a caller applies send_tool_result to the provider's response
GwSendToolResult ==
    /\ pc = "gateway"
    /\ LET t == send_tool_result(provider, gw.reply) IN
       gw' = [gw EXCEPT !.op = "send_tool_result",
                        !.out = IF t.ok THEN t.ret.t ELSE "raise",
                        !.text = t.ret.s, !.fc = t.ret.fc]
    /\ pc' = "gateway_done"
    /\ UNCHANGED <<entry, provider, process, request_id, sent, eof, resp, awaited, init_id, cause>>
    /\ UNCHANGED <<turnVars, logVars, ragVars, pureVars, history, sideVars>>

InitGateway ==
    /\ entry = "root" /\ provider \in {"gemini", "openai"} /\ pc = "gateway"
    /\ process = "none" /\ request_id = 0 /\ sent = <<>> /\ eof = FALSE
    /\ resp = NoResp /\ awaited = 0 /\ init_id = 0 /\ cause = "none"
    /\ response_text = NoStr /\ func_call = NoCall /\ loop_count = 0
    /\ tool_result = NoStr /\ raised = NoExc /\ fed = NoFed /\ fedCount = 0 /\ toolCalls = 0
    /\ turns = 0 /\ turnEnd = "none"
    /\ material_name = NoStr /\ named = FALSE /\ saves = 0
    /\ filename = NoStr /\ created = <<>> /\ warned = FALSE
    /\ gw \in {[NoGw EXCEPT !.reply = r] : r \in Replies}
    /\ closes = 0 /\ close_exc = NoExc
    /\ history = <<>>
    /\ sp_event = FALSE /\ sp_alive = 0 /\ sp_frame = 0 /\ sp_ops = 0 /\ sp_path = "none"
    /\ srv_running = TRUE /\ srv_req = NoRequest /\ srv_out = <<>>
    /\ plan = <<>> /\ taskIdx = 1 /\ aggregated = <<>> /\ blocks = <<>> /\ chunks = <<>>
    /\ schema = NoStr /\ lowered = NoStr
    /\ name = NoStr /\ safe_server = NoStr /\ safe_logger = NoStr

NextGateway == GwSendMessage \/ GwSendToolResult

SpecGateway == InitGateway /\ [][NextGateway]_vars

(***************************************************************************)
(* BlenderMCPClient driven by a caller that may call close() at any point  *)
(* where no other method is running                                        *)
(***************************************************************************)
\* start(): Popen and the initialize request, or Popen raises
ClientStart ==
    /\ pc = "client_new"
    /\ \/ /\ process' = "running"
          /\ request_id' = request_id + 1
          /\ sent' = Append(sent, Request("initialize", request_id + 1))
          /\ pc' = "client_hs"
       \/ /\ pc' = "client_failed"
          /\ UNCHANGED <<process, request_id, sent>>
    /\ UNCHANGED <<entry, provider, eof, resp, awaited, init_id, cause>>
    /\ UNCHANGED <<turnVars, logVars, ragVars, pureVars, llmVars, sideVars>>

\* start(): one readline of _waiting_response; on a match the notification
ClientHandshake ==
    /\ pc = "client_hs"
    /\ \E line \in Lines :
        /\ eof => line.k = "eof"
        /\ eof' = (line.k = "eof")
        /\ LET w == WaitStep(line, request_id) IN
           CASE w.out = "skip" -> UNCHANGED <<pc, sent, resp, awaited, init_id>>
             [] w.out = "raise" ->
                    /\ pc' = "client_failed"
                    /\ UNCHANGED <<sent, resp, awaited, init_id>>
             [] OTHER ->
                    /\ resp' = [line EXCEPT !.body = NoBody]
                    /\ awaited' = LastRequestId(sent)
                    /\ init_id' = line.id
                    /\ sent' = Append(sent, Notification("notifications/initialized"))
                    /\ pc' = "client_connected"
    /\ UNCHANGED <<entry, provider, process, request_id, cause>>
    /\ UNCHANGED <<turnVars, logVars, ragVars, pureVars, llmVars, sideVars>>

\* ClientCall with a request that reuses the id of the previous one
ClientCall_SameId ==
    /\ pc = "client_connected"
    /\ request_id < MaxRespId
    /\ request_id' = request_id
    /\ sent' = Append(sent, Request("tools/call", request_id))
    /\ pc' = "client_call"
    /\ UNCHANGED <<entry, provider, process, eof, resp, awaited, init_id, cause>>
    /\ UNCHANGED <<turnVars, logVars, ragVars, pureVars, llmVars, sideVars>>

\* call_tool(): the tools/call request
ClientCall ==
    /\ pc = "client_connected"
    /\ request_id < MaxRespId
    /\ request_id' = request_id + 1
    /\ sent' = Append(sent, Request("tools/call", request_id + 1))
    /\ pc' = "client_call"
    /\ UNCHANGED <<entry, provider, process, eof, resp, awaited, init_id, cause>>
    /\ UNCHANGED <<turnVars, logVars, ragVars, pureVars, llmVars, sideVars>>

\* call_tool(): one readline of _waiting_response; the call returns or raises
\* to the caller, which keeps the client
ClientCallRead ==
    /\ pc = "client_call"
    /\ \E line \in Lines :
        /\ eof => line.k = "eof"
        /\ eof' = (line.k = "eof")
        /\ LET w == WaitStep(line, request_id) IN
           CASE w.out = "skip" -> UNCHANGED <<pc, resp, awaited>>
             [] w.out = "raise" -> pc' = "client_connected" /\ UNCHANGED <<resp, awaited>>
             [] OTHER ->
                    /\ resp' = [line EXCEPT !.body = NoBody]
                    /\ awaited' = LastRequestId(sent)
                    /\ pc' = "client_connected"
    /\ UNCHANGED <<entry, provider, process, request_id, sent, init_id, cause>>
    /\ UNCHANGED <<turnVars, logVars, ragVars, pureVars, llmVars, sideVars>>

\* the child ends by itself
ClientChildExits ==
    /\ pc \in {"client_failed", "client_connected", "client_closed"}
    /\ process = "running"
    /\ process' = "exited"
    /\ UNCHANGED <<entry, provider, pc, request_id, sent, eof, resp, awaited, init_id, cause>>
    /\ UNCHANGED <<turnVars, logVars, ragVars, pureVars, llmVars, sideVars>>

\* the caller calls client.close()
ClientClose ==
    /\ pc \in {"client_new", "client_failed", "client_connected", "client_closed"}
    /\ closes < MaxCloses
    /\ closes' = closes + 1
    /\ process' = close(process).process
    /\ close_exc' = close(process).exc
    /\ pc' = "client_closed"
    /\ UNCHANGED <<entry, provider, request_id, sent, eof, resp, awaited, init_id, cause>>
    /\ UNCHANGED <<turnVars, logVars, ragVars, pureVars, llmVars, srvVars, spinVars>>

InitClose ==
    /\ entry \in {"root", "agent"} /\ provider \in {"gemini", "openai"} /\ pc = "client_new"
    /\ process = "none" /\ request_id = 0 /\ sent = <<>> /\ eof = FALSE
    /\ resp = NoResp /\ awaited = 0 /\ init_id = 0 /\ cause = "none"
    /\ response_text = NoStr /\ func_call = NoCall /\ loop_count = 0
    /\ tool_result = NoStr /\ raised = NoExc /\ fed = NoFed /\ fedCount = 0 /\ toolCalls = 0
    /\ turns = 0 /\ turnEnd = "none"
    /\ material_name = NoStr /\ named = FALSE /\ saves = 0
    /\ filename = NoStr /\ created = <<>> /\ warned = FALSE
    /\ gw = NoGw
    /\ closes = 0 /\ close_exc = NoExc
    /\ history = <<>>
    /\ sp_event = FALSE /\ sp_alive = 0 /\ sp_frame = 0 /\ sp_ops = 0 /\ sp_path = "none"
    /\ srv_running = TRUE /\ srv_req = NoRequest /\ srv_out = <<>>
    /\ plan = <<>> /\ taskIdx = 1 /\ aggregated = <<>> /\ blocks = <<>> /\ chunks = <<>>
    /\ schema = NoStr /\ lowered = NoStr
    /\ name = NoStr /\ safe_server = NoStr /\ safe_logger = NoStr

NextClose ==
    \/ ClientStart
    \/ ClientHandshake
    \/ ClientCall
    \/ ClientCallRead
    \/ ClientChildExits
    \/ ClientClose

SpecClose == InitClose /\ [][NextClose]_vars

(***************************************************************************)
(* The tool server (blender_server/server.py) and its tools                *)
(* (blender_server/utils.py)                                               *)
(***************************************************************************)
ServerIds == {1, 2}
ServerTools == {"create_procedural_material", "list_materials", "save_blend_file", "no_such_tool"}

\* what running a tool meets:
\*   "none"     nothing raises
\*   "caught"   an Exception inside the tool's own try block (the exec of
\*              python_code, the save of the blend file)
\*   "uncaught" an Exception outside any try block of the tool
\*              (delete_default_cube in create_procedural_material, the
\*              comprehension of list_materials)
\*   "exit"     python_code raises SystemExit, which is not an Exception
Faults(tool) ==
    CASE tool = "create_procedural_material" -> {"none", "caught", "uncaught", "exit"}
      [] tool = "list_materials" -> {"none", "uncaught"}
      [] tool = "save_blend_file" -> {"none", "caught"}
      [] OTHER -> {"none"}

\* the JSON objects a line of the server's stdin can hold
ServerRequests ==
    {[method |-> m, hasId |-> TRUE, id |-> i, tool |-> "none", fault |-> "none"] :
        m \in {"initialize", "tools/list", "ping", "no_such_method"}, i \in ServerIds}
    \cup {[method |-> "notifications/initialized", hasId |-> FALSE, id |-> 0, tool |-> "none",
           fault |-> "none"]}
    \cup UNION {{[method |-> "tools/call", hasId |-> TRUE, id |-> i, tool |-> t, fault |-> f] :
                    i \in ServerIds, f \in Faults(t)} : t \in ServerTools}

\* utils.create_procedural_material
create_procedural_material(fault) ==
    CASE fault = "none" -> [out |-> "return", success |-> TRUE, msg |-> <<"Material created">>]
      [] fault = "caught" ->
            [out |-> "return", success |-> FALSE, msg |-> <<"Error creating material: ", "boom">>]
      [] fault = "uncaught" -> [out |-> "raise", success |-> FALSE, msg |-> NoStr]
      [] OTHER -> [out |-> "exit", success |-> FALSE, msg |-> NoStr]

\* utils.list_materials followed by json.dumps
list_materials(fault) ==
    IF fault = "none" THEN [out |-> "return", success |-> TRUE, msg |-> <<"[]">>]
    ELSE [out |-> "raise", success |-> FALSE, msg |-> NoStr]

\* utils.save_blend_file
save_blend_file(fault) ==
    IF fault = "none" THEN [out |-> "return", success |-> TRUE, msg |-> <<"Saved to ", "path">>]
    ELSE [out |-> "return", success |-> FALSE, msg |-> <<"Failed to save: ", "boom">>]

\* the response object handle_request builds
Response(req, body) == [k |-> "resp", id |-> req.id, body |-> body]

ResultBody(content, isError) ==
    [p |-> "result", hasMsg |-> FALSE, msg |-> NoStr, content |-> content, isError |-> isError]

ErrorBody(msg) ==
    [p |-> "error", hasMsg |-> TRUE, msg |-> msg, content |-> <<>>, isError |-> FALSE]

\* handle_request(request): "response" with the object returned, "none" for
\* None, "raise" when an Exception leaves it, "exit" when SystemExit does
handle_request(req) ==
    LET silent == [out |-> "none", line |-> NoResp]
        answer(body) == [out |-> "response", line |-> Response(req, body)]
        tool(r) == IF r.out = "return"
                   THEN answer(ResultBody(<<[hasType |-> TRUE, type |-> "text", hasText |-> TRUE,
                                             text |-> r.msg]>>, ~r.success))
                   ELSE [out |-> r.out, line |-> NoResp]
    IN
    CASE req.method \in {"initialize", "tools/list", "ping"} -> answer(ResultBody(<<>>, FALSE))
      [] req.method = "tools/call" ->
            (CASE req.tool = "create_procedural_material" ->
                      tool(create_procedural_material(req.fault))
               [] req.tool = "list_materials" ->
                      LET r == list_materials(req.fault) IN
                      IF r.out = "return"
                      THEN answer(ResultBody(<<[hasType |-> TRUE, type |-> "text",
                                                hasText |-> TRUE, text |-> r.msg]>>, FALSE))
                      ELSE [out |-> r.out, line |-> NoResp]
               [] req.tool = "save_blend_file" -> tool(save_blend_file(req.fault))
               [] OTHER -> answer(ErrorBody(<<"Tool not found: ", req.tool>>)))
      [] OTHER -> silent

\* one pass of the loop of the server's main(): a line of stdin is read and,
\* when it holds a request, handled and answered
ServerStep ==
    /\ pc = "server"
    /\ srv_running
    /\ \/ \* readline() returned '': break
          /\ srv_running' = FALSE
          /\ srv_req' = [NoRequest EXCEPT !.n = srv_req.n, !.method = "eof"]
          /\ UNCHANGED srv_out
       \/ \* a blank line, or a line that is not JSON: nothing is written
          UNCHANGED <<srv_running, srv_req, srv_out>>
       \/ /\ srv_req.n < MaxRequests
          /\ \E req \in ServerRequests :
                LET h == handle_request(req)
                    n == srv_req.n + 1
                IN
                /\ srv_req' = [n |-> n, method |-> req.method, hasId |-> req.hasId,
                               id |-> req.id, tool |-> req.tool, fault |-> req.fault]
                /\ srv_out' = IF h.out = "response"
                              THEN Append(srv_out, [n |-> n, line |-> h.line])
                              ELSE srv_out
                \* except Exception: log(...) keeps the loop; SystemExit ends it
                /\ srv_running' = (h.out # "exit")
    /\ UNCHANGED <<ctlVars, turnVars, logVars, ragVars, pureVars, llmVars, closeVars, spinVars>>

InitServer ==
    /\ entry = "root" /\ provider = "gemini" /\ pc = "server"
    /\ process = "none" /\ request_id = 0 /\ sent = <<>> /\ eof = FALSE
    /\ resp = NoResp /\ awaited = 0 /\ init_id = 0 /\ cause = "none"
    /\ response_text = NoStr /\ func_call = NoCall /\ loop_count = 0
    /\ tool_result = NoStr /\ raised = NoExc /\ fed = NoFed /\ fedCount = 0 /\ toolCalls = 0
    /\ turns = 0 /\ turnEnd = "none"
    /\ material_name = NoStr /\ named = FALSE /\ saves = 0
    /\ filename = NoStr /\ created = <<>> /\ warned = FALSE
    /\ gw = NoGw
    /\ closes = 0 /\ close_exc = NoExc
    /\ history = <<>>
    /\ sp_event = FALSE /\ sp_alive = 0 /\ sp_frame = 0 /\ sp_ops = 0 /\ sp_path = "none"
    /\ srv_running = TRUE /\ srv_req = NoRequest /\ srv_out = <<>>
    /\ plan = <<>> /\ taskIdx = 1 /\ aggregated = <<>> /\ blocks = <<>> /\ chunks = <<>>
    /\ schema = NoStr /\ lowered = NoStr
    /\ name = NoStr /\ safe_server = NoStr /\ safe_logger = NoStr

NextServer == ServerStep

SpecServer == InitServer /\ [][NextServer]_vars

(***************************************************************************)
(* LLMClient.history (openai) under a caller that sends messages and feeds *)
(* tool results back as main's loop does                                   *)
(***************************************************************************)
HistCallIds == {"call_1", "call_2"}
HistCall(i) == [name |-> "list_materials", hasArg |-> FALSE, arg |-> NoStr, id |-> i]

\* the provider's responses: no call, one call, or two calls
HistReplies ==
    [content : Texts,
     calls : {<<>>} \cup {<<HistCall(i)>> : i \in HistCallIds}
             \cup {<<HistCall(i), HistCall(j)>> : i \in HistCallIds, j \in HistCallIds},
     bad : BadKinds]

ToolResults == {<<"o", "k">>}

\* {"role": "user", "content": message}
UserMsg == [role |-> "user", tool_call_id |-> "none", name |-> "none", hasContent |-> TRUE]

\* completion.choices[0].message: its content may be None; of its tool_calls
\* the id of the first is kept
AssistantMsg(r) ==
    [role |-> "assistant",
     tool_call_id |-> IF r.calls = <<>> THEN "none" ELSE r.calls[1].id,
     name |-> "none", hasContent |-> r.bad # "text"]

\* {"role": "tool", "tool_call_id": tool_call_id, "name": tool_name, "content": str(result)}
ToolMsg(fb) == [role |-> "tool", tool_call_id |-> fb.token, name |-> fb.name, hasContent |-> TRUE]

\* AppendMsg that assigns a new list holding only the message
AppendMsg_Replace(h, m) == <<m>>

\* self.history.append(m)
AppendMsg(h, m) == Append(h, m)

\* self.history after a call that appended first and, if the completion
\* could be read, appended completion.choices[0].message
HistoryAfter(h, first, r) ==
    IF r.bad \in {"api", "parts", "both"} THEN AppendMsg(h, first)
    ELSE AppendMsg(AppendMsg(h, first), AssistantMsg(r))

\* send_message(message) of the openai provider
HistSendMessage ==
    /\ pc = "hist"
    /\ Len(history) < MaxMessages
    /\ \E r \in HistReplies :
        LET m == send_message_openai(r) IN
        /\ history' = HistoryAfter(history, UserMsg, r)
        /\ gw' = [op |-> "send_message", reply |-> r,
                  out |-> IF m.ok THEN "pair" ELSE "raise", text |-> m.text, fc |-> m.fc]
        /\ func_call' = IF m.ok THEN m.fc ELSE func_call
        /\ pc' = IF m.ok /\ Truthy(m.fc) THEN "hist_tool" ELSE "hist"
    /\ UNCHANGED <<entry, provider, process, request_id, sent, eof, resp, awaited, init_id, cause>>
    /\ UNCHANGED <<response_text, loop_count, tool_result, raised, fed, fedCount, toolCalls,
                   turns, turnEnd>>
    /\ UNCHANGED <<logVars, ragVars, pureVars, sideVars>>

\* the caller ran the tool of func_call and feeds the result back:
\* send_tool_result(fname, tool_result, tool_call_id=call_id)
HistSendToolResult ==
    /\ pc = "hist_tool"
    /\ \E r \in HistReplies, res \in ToolResults :
        LET t == send_tool_result_openai(r)
            fb == FedBack(func_call, res)
        IN
        /\ history' = HistoryAfter(history, ToolMsg(fb), r)
        /\ gw' = [op |-> "send_tool_result", reply |-> r,
                  out |-> IF t.ok THEN t.ret.t ELSE "raise", text |-> t.ret.s, fc |-> t.ret.fc]
        /\ fed' = fb
        /\ tool_result' = res
    /\ pc' = "hist"
    /\ UNCHANGED <<entry, provider, process, request_id, sent, eof, resp, awaited, init_id, cause>>
    /\ UNCHANGED <<response_text, func_call, loop_count, raised, fedCount, toolCalls,
                   turns, turnEnd>>
    /\ UNCHANGED <<logVars, ragVars, pureVars, sideVars>>

InitHistory ==
    /\ entry = "root" /\ provider = "openai" /\ pc = "hist"
    /\ process = "none" /\ request_id = 0 /\ sent = <<>> /\ eof = FALSE
    /\ resp = NoResp /\ awaited = 0 /\ init_id = 0 /\ cause = "none"
    /\ response_text = NoStr /\ func_call = NoCall /\ loop_count = 0
    /\ tool_result = NoStr /\ raised = NoExc /\ fed = NoFed /\ fedCount = 0 /\ toolCalls = 0
    /\ turns = 0 /\ turnEnd = "none"
    /\ material_name = NoStr /\ named = FALSE /\ saves = 0
    /\ filename = NoStr /\ created = <<>> /\ warned = FALSE
    /\ gw = NoGw
    /\ closes = 0 /\ close_exc = NoExc
    /\ history = <<>>
    /\ sp_event = FALSE /\ sp_alive = 0 /\ sp_frame = 0 /\ sp_ops = 0 /\ sp_path = "none"
    /\ srv_running = TRUE /\ srv_req = NoRequest /\ srv_out = <<>>
    /\ plan = <<>> /\ taskIdx = 1 /\ aggregated = <<>> /\ blocks = <<>> /\ chunks = <<>>
    /\ schema = NoStr /\ lowered = NoStr
    /\ name = NoStr /\ safe_server = NoStr /\ safe_logger = NoStr

NextHistory == HistSendMessage \/ HistSendToolResult

SpecHistory == InitHistory /\ [][NextHistory]_vars

(***************************************************************************)
(* Spinner: the controller wraps each blocking operation in a new Spinner  *)
(* (start, try: operation, finally: stop) while the worker thread runs     *)
(* _spin concurrently                                                      *)
(***************************************************************************)
\* itertools.cycle(["|", "/", "-", "\\"])
Frames == <<"|", "/", "-", "\\">>

\* what can happen to the operation between start() and stop()
Outcomes == {"normal", "raised"}

\* JoinTest that returns without joining
JoinTest_NoJoin == pc' = "spin_after"

\* stop(), after the event has been set:
\* if self.thread.is_alive(): self.thread.join()
JoinTest == pc' = IF sp_alive > 0 THEN "spin_join" ELSE "spin_after"

\* spinner = Spinner(...); spinner.start(): a new event, cleared, and a new
\* thread, started because the one made by __init__ is not alive
SpinnerStart ==
    /\ pc = "spin_idle"
    /\ sp_ops < MaxOps
    /\ sp_event' = FALSE
    /\ sp_alive' = sp_alive + 1
    /\ sp_frame' = 0
    /\ sp_path' = "none"
    /\ pc' = "spin_op"
    /\ UNCHANGED sp_ops
    /\ UNCHANGED <<entry, provider, process, request_id, sent, eof, resp, awaited, init_id, cause>>
    /\ UNCHANGED <<turnVars, logVars, ragVars, pureVars, llmVars, closeVars, srvVars>>

\* one iteration of the loop of _spin: the event is not set, a frame is
\* written and the worker sleeps
WorkerSpin ==
    /\ sp_alive > 0
    /\ ~sp_event
    /\ sp_frame' = (sp_frame % Len(Frames)) + 1
    /\ UNCHANGED <<sp_event, sp_alive, sp_ops, sp_path>>
    /\ UNCHANGED <<ctlVars, turnVars, logVars, ragVars, pureVars, llmVars, closeVars, srvVars>>

\* _spin finds the event set, clears the line and returns: the thread ends
WorkerExit ==
    /\ sp_alive > 0
    /\ sp_event
    /\ sp_alive' = sp_alive - 1
    /\ UNCHANGED <<sp_event, sp_frame, sp_ops, sp_path>>
    /\ UNCHANGED <<ctlVars, turnVars, logVars, ragVars, pureVars, llmVars, closeVars, srvVars>>

\* the wrapped operation returns or raises; either way the finally clause
\* calls spinner.stop(), which first sets the event
OperationEnds ==
    /\ pc = "spin_op"
    /\ \E o \in Outcomes : sp_path' = o
    /\ sp_event' = TRUE
    /\ pc' = "spin_stop"
    /\ UNCHANGED <<sp_alive, sp_frame, sp_ops>>
    /\ UNCHANGED <<entry, provider, process, request_id, sent, eof, resp, awaited, init_id, cause>>
    /\ UNCHANGED <<turnVars, logVars, ragVars, pureVars, llmVars, closeVars, srvVars>>

\* stop() tests whether the worker is alive; it may have ended already
SpinnerStop ==
    /\ pc = "spin_stop"
    /\ JoinTest
    /\ UNCHANGED spinVars
    /\ UNCHANGED <<entry, provider, process, request_id, sent, eof, resp, awaited, init_id, cause>>
    /\ UNCHANGED <<turnVars, logVars, ragVars, pureVars, llmVars, closeVars, srvVars>>

\* self.thread.join() returns once the worker has ended
SpinnerJoined ==
    /\ pc = "spin_join"
    /\ sp_alive = 0
    /\ pc' = "spin_after"
    /\ UNCHANGED spinVars
    /\ UNCHANGED <<entry, provider, process, request_id, sent, eof, resp, awaited, init_id, cause>>
    /\ UNCHANGED <<turnVars, logVars, ragVars, pureVars, llmVars, closeVars, srvVars>>

\* the controller goes on after the finally clause: to the next wrapped
\* operation, or out of the turn with the exception
Proceed ==
    /\ pc = "spin_after"
    /\ pc' = IF sp_path = "raised" THEN "spin_done" ELSE "spin_idle"
    /\ sp_ops' = sp_ops + 1
    /\ UNCHANGED <<sp_event, sp_alive, sp_frame, sp_path>>
    /\ UNCHANGED <<entry, provider, process, request_id, sent, eof, resp, awaited, init_id, cause>>
    /\ UNCHANGED <<turnVars, logVars, ragVars, pureVars, llmVars, closeVars, srvVars>>

InitSpinner ==
    /\ entry \in {"root", "agent"} /\ provider = "gemini" /\ pc = "spin_idle"
    /\ process = "none" /\ request_id = 0 /\ sent = <<>> /\ eof = FALSE
    /\ resp = NoResp /\ awaited = 0 /\ init_id = 0 /\ cause = "none"
    /\ response_text = NoStr /\ func_call = NoCall /\ loop_count = 0
    /\ tool_result = NoStr /\ raised = NoExc /\ fed = NoFed /\ fedCount = 0 /\ toolCalls = 0
    /\ turns = 0 /\ turnEnd = "none"
    /\ material_name = NoStr /\ named = FALSE /\ saves = 0
    /\ filename = NoStr /\ created = <<>> /\ warned = FALSE
    /\ gw = NoGw
    /\ closes = 0 /\ close_exc = NoExc
    /\ history = <<>>
    /\ sp_event = FALSE /\ sp_alive = 0 /\ sp_frame = 0 /\ sp_ops = 0 /\ sp_path = "none"
    /\ srv_running = TRUE /\ srv_req = NoRequest /\ srv_out = <<>>
    /\ plan = <<>> /\ taskIdx = 1 /\ aggregated = <<>> /\ blocks = <<>> /\ chunks = <<>>
    /\ schema = NoStr /\ lowered = NoStr
    /\ name = NoStr /\ safe_server = NoStr /\ safe_logger = NoStr

NextSpinner ==
    \/ SpinnerStart
    \/ WorkerSpin
    \/ WorkerExit
    \/ OperationEnds
    \/ SpinnerStop
    \/ SpinnerJoined
    \/ Proceed

SpecSpinner == InitSpinner /\ [][NextSpinner]_vars

(***************************************************************************)
(* Properties of the client and of the orchestration loop                  *)
(***************************************************************************)
TextBlock(t) == [hasType |-> TRUE, type |-> "text", hasText |-> TRUE, text |-> t]

IsNotified(i) == sent[i].method = "notifications/initialized"
IsToolCall(i) == sent[i].method = "tools/call"

\* C1: the message _waiting_response hands back carries the id of the request
\* that is outstanding; a response line with another id is never returned.
C1_MatchedId ==
    resp # NoResp => /\ resp.k = "resp"
                     /\ awaited >= 1
                     /\ resp.id = awaited

\* a tools/call request (id 2) was answered and its response handed to call_tool
C1_Witness == pc = "feed" /\ resp.k = "resp" /\ awaited = 2 /\ raised = NoExc

\* C2: at most 10 call_tool invocations are issued in one user turn.
C2_AtMostTenCalls == toolCalls <= 10

\* a turn in which the model returned a structured call and the tool was invoked
C2_Witness == pc = "feed" /\ toolCalls = 1 /\ loop_count = 1

\* C3: whenever call_tool raises inside the loop, the non-empty message
\* "Error executing tool: ..." is passed to send_tool_result with the same tool
\* name and correlation token, and the exception does not end the turn.
C3_ExceptionFedBack ==
    raised # NoExc =>
        /\ cause # "call_tool"
        /\ fedCount = toolCalls
        /\ fed = FedBack(func_call, ErrorResult(raised))
        /\ fed.result # NoStr

\* C4: call_tool never raises to its caller; it always returns a string.
C4_CallToolNeverRaises == raised = NoExc

\* C5: the initialize request is written first, the initialized notification
\* only after a response with the id of the initialize request has been
\* read, and no tools/call request before that notification.
C5_HandshakeOrder ==
    /\ sent # <<>> => sent[1] = Request("initialize", 1)
    /\ \A i \in DOMAIN sent : IsNotified(i) => (i > 1 /\ init_id = sent[1].id)
    /\ \A j \in DOMAIN sent : IsToolCall(j) => \E i \in 1..(j - 1) : IsNotified(i)

\* a tools/call request has been written after a completed handshake
C5_Witness == \E j \in DOMAIN sent : IsToolCall(j)

\* C6: if the child's output ends before a response to initialize has been
\* read, start raises, the run ends as a startup failure, and nothing but the
\* initialize request has been or will be written to the child.
C6_EofBeforeInitializeIsFatal ==
    (eof /\ init_id = 0) =>
        /\ pc = "exited"
        /\ cause = "handshake"
        /\ turns = 0
        /\ sent = <<Request("initialize", 1)>>

\* the child closed its output while start() was waiting
C6_Witness == eof /\ init_id = 0 /\ pc = "exited" /\ process = "terminated"

\* C7: for a tools/call answered with {isError: true, content: [{type: "text",
\* text: T}]}, call_tool returns exactly T, T is passed to send_tool_result,
\* and the loop goes on with the model's next reply instead of failing.
C7_IsErrorResultFedBackTurnContinues ==
    \A t \in BlockTexts :
        (resp.body.p = "result" /\ resp.body.isError /\ resp.body.content = <<TextBlock(t)>>) =>
            /\ tool_result = t
            /\ fedCount = toolCalls
            /\ fed.result = t
            /\ cause \notin {"unpack", "subscript"}


(***************************************************************************)
(* Properties of the pure helpers and of the retrieval aggregation         *)
(***************************************************************************)
\* C8: _sanitize_schema returns a schema for every schema built from dicts,
\* lists and strings, and applying it to its own result changes nothing.
C8_SanitizeIdempotent ==
    pc = "schema_done" =>
        /\ IsSchema(lowered)
        /\ ~HasUpperType(lowered)
        /\ sanitize_schema(lowered) = lowered

\* a nested schema with an upper-case type inside an inner dict was lowered
C8_Witness ==
    /\ pc = "schema_done"
    /\ lowered # schema
    /\ schema.k = "dict"
    /\ \E key \in DOMAIN schema.v : schema.v[key].k = "dict" /\ HasUpperType(schema.v[key])

Occurrences(q, x) == Cardinality({i \in DOMAIN q : q[i] = x})

\* C9: a non-empty context string returned for two or more subtasks occurs
\* exactly once among the blocks joined into the aggregated context.
C9_DuplicateContextOnce ==
    (pc = "send" /\ entry = "root") =>
        \A i, j \in DOMAIN chunks :
            (i < j /\ chunks[i] = chunks[j] /\ chunks[i] # NoStr) =>
                Occurrences(blocks, chunks[i]) = 1

\* two subtasks returned the same non-empty context
C9_Witness ==
    /\ pc = "send"
    /\ \E i, j \in DOMAIN chunks : i < j /\ chunks[i] = chunks[j] /\ chunks[i] # NoStr

\* C10: the sanitized name has the length of the name, keeps every
\* alphanumeric character in place and has '_' everywhere else ("Shiny Red #1"
\* gives "Shiny_Red__1"); the logger computes the same string as the server.
C10_SanitizedName ==
    /\ pc \in {"names_server", "names_done"} =>
        /\ Len(safe_server) = Len(name)
        /\ \A i \in DOMAIN name :
            safe_server[i] = IF name[i] \in AlnumChars THEN name[i] ELSE "_"
    /\ (pc = "names_done" /\ name # NoStr) => safe_logger = safe_server
    /\ (pc = "names_done" /\ name = ShinyRed) =>
        (safe_server = ShinyRedSafe /\ safe_logger = ShinyRedSafe)

\* a name with an alphanumeric and a non-alphanumeric character went through both
C10_Witness ==
    /\ pc = "names_done"
    /\ \E i, j \in DOMAIN name : name[i] \in AlnumChars /\ name[j] \in {" ", "#"}
    /\ safe_logger = safe_server
    /\ safe_server # name

(***************************************************************************)
(* Properties of the turn: the log, the failure policy, the gateway        *)
(***************************************************************************)
\* C11: every turn of src/main.py that has ended, in whichever way (normally,
\* by a failure of planning, retrieval or a gateway call, or at the round-trip
\* ceiling), has persisted its log exactly once.
C11_LogPersistedOncePerTurn ==
    (entry = "root" /\ turnEnd # "none") => saves = 1

C14_NonFatalFailureKeepsSession ==
    cause \in {"plan", "rag", "gateway"} =>
        /\ pc = "idle"
        /\ process = "running"
        /\ turnEnd = "aborted"

\* C15: the value send_tool_result returns is unpacked into a text and a
\* call-or-none: the unpacking never raises and never binds func_call to
\* anything but a call or None.
C15_GatewayReturnsPairs ==
    /\ cause # "unpack"
    /\ func_call.kind # "str"

\* reading the response r raises inside the gateway of provider prov: its
\* parts or choices, its text, or the arguments of a call cannot be read
ExtractionFails(prov, r) ==
    \/ r.bad \in {"parts", "both"}
    \/ r.bad = "text" /\ prov = "gemini"
    \/ r.bad = "args" /\ r.calls # <<>>

\* C16: when extracting the text or the call from a provider response raises,
\* send_message and send_tool_result do not raise and return the empty text
\* and no call.
C16_ExtractionFailureSwallowed ==
    (gw.op # "none" /\ ExtractionFails(provider, gw.reply)) =>
        /\ gw.out = "pair"
        /\ gw.text = NoStr
        /\ gw.fc = NoCall

\* C17: when a well-formed provider response holds one or more structured
\* calls, send_message returns the first of them.
C17_FirstCallSurfaced ==
    (gw.op = "send_message" /\ gw.reply.bad = "ok" /\ gw.reply.calls # <<>>) =>
        /\ gw.out = "pair"
        /\ gw.fc.kind = "dict"
        /\ gw.fc.name = gw.reply.calls[1].name
        /\ gw.fc.hasArg = gw.reply.calls[1].hasArg
        /\ gw.fc.arg = gw.reply.calls[1].arg

\* C18: close() never raises, whether it is called before start(), after a
\* start() that succeeded or after one that failed, and a close() that
\* follows a close() changes nothing in the client.
C18_CloseIdempotent ==
    /\ [](close_exc = NoExc)
    /\ [][(closes >= 1 /\ closes' = closes + 1 /\ pc = "client_closed") =>
            (process' = process /\ request_id' = request_id /\ sent' = sent)]_vars

\* close() was called twice on a client whose child had been spawned
C18_Witness == closes >= 2 /\ pc = "client_closed" /\ process = "terminated"

\* C19: when a tool run for a tools/call request raises, the server has
\* written a response with the request's id whose result has isError true
\* and a text block, and the server is still running.
C19_ToolExceptionAnswered ==
    (srv_req.method = "tools/call" /\ srv_req.fault # "none") =>
        /\ srv_running
        /\ srv_out # <<>>
        /\ LET last == srv_out[Len(srv_out)] IN
           /\ last.n = srv_req.n
           /\ last.line.id = srv_req.id
           /\ last.line.body.p = "result"
           /\ last.line.body.isError
           /\ \E i \in DOMAIN last.line.body.content :
                last.line.body.content[i].type = "text"

\* C20: while the client awaits a response, a line that is not the matching
\* response never makes the wait raise: the wait ends by raising only at end
\* of stream.
C20_NonMatchingLinesDiscarded ==
    /\ cause = "handshake" => eof
    /\ raised \notin {Exc("argument of type is not iterable"), Exc("indices must be integers")}

(***************************************************************************)
(* Properties of the transport, of the teardown and of the tool loop       *)
(***************************************************************************)
\* C21: once the child's output has ended while call_tool awaited a reply,
\* the controller is past the wait, never reads or writes to the child again,
\* and its next step ends the run.
C21_EofDuringCallIsTerminal ==
    /\ []((eof /\ init_id # 0) => pc \in {"feed", "exited"})
    /\ [][(eof /\ init_id # 0) => (sent' = sent /\ eof' /\ pc' = "exited")]_vars

\* the child's output ended during a call_tool of src/main.py and the run is over
C21_Witness ==
    /\ eof /\ init_id # 0 /\ entry = "root"
    /\ pc = "exited" /\ process = "terminated"
    /\ raised = Exc("Server closed connection")

\* C22: when main has ended and a child was spawned, terminate has been
\* requested on it; while main has not ended, terminate has not been requested.
C22_ChildTornDownOnExit ==
    /\ (pc = "exited" /\ process # "none") => process = "terminated"
    /\ pc # "exited" => process # "terminated"

\* the run ended by an exception that escaped a turn, with the child terminated
C22_Witness == pc = "exited" /\ process = "terminated" /\ turnEnd = "aborted"

C25_RequestIdsIncrease ==
    /\ \A i, j \in DOMAIN sent :
        (i < j /\ sent[i].hasId /\ sent[j].hasId) => sent[i].id < sent[j].id
    /\ \A i \in DOMAIN sent : sent[i].method = "notifications/initialized" => ~sent[i].hasId
    /\ request_id = LastRequestId(sent)

\* a client wrote initialize, the notification and two tools/call requests
C25_Witness ==
    /\ Len(sent) >= 4
    /\ sent[2].method = "notifications/initialized"
    /\ sent[3].hasId /\ sent[4].hasId

RECURSIVE FirstSeen(_, _)
\* the non-empty members of q that are not in seen, each once, in order
FirstSeen(q, seen) ==
    IF q = <<>> THEN <<>>
    ELSE IF Head(q) = NoStr \/ Head(q) \in seen THEN FirstSeen(Tail(q), seen)
    ELSE <<Head(q)>> \o FirstSeen(Tail(q), seen \cup {Head(q)})

\* C28: the blocks joined into the aggregated context are the distinct
\* non-empty contexts in the order in which the plan's entries first
\* returned them.
C28_FirstSeenOrder ==
    (pc = "send" /\ entry = "root") => blocks = FirstSeen(chunks, {})

IsPrefix(p, q) == Len(p) <= Len(q) /\ SubSeq(q, 1, Len(p)) = p

\* C26: every call of send_message or send_tool_result, returning or
\* raising, leaves the earlier messages of the history in place and only
\* appends: a send_message that returns appends the user message and then
\* the assistant message, a send_tool_result that returns appends the
\* tool-result message and then the assistant message, and a call that
\* raises appends its own message and at most the assistant message.
C26_HistoryAppendOnly ==
    [][history' # history =>
        /\ IsPrefix(history, history')
        /\ Len(history') \in {Len(history) + 1, Len(history) + 2}
        /\ history'[Len(history) + 1].role =
              IF gw'.op = "send_message" THEN "user" ELSE "tool"
        /\ Len(history') = Len(history) + 2 => history'[Len(history) + 2].role = "assistant"
        /\ gw'.out # "raise" => Len(history') = Len(history) + 2]_vars

\* a send_tool_result raised after a round trip had been recorded
C26_Witness ==
    /\ Len(history) = 5
    /\ gw.op = "send_tool_result" /\ gw.out = "raise"
    /\ history[5].role = "tool" /\ history[3].role = "user"

\* C27: every tool-result message of the history directly follows the
\* assistant message whose first call caused the invocation and carries
\* that call's id as its tool_call_id.
C27_TokenThreadedBack ==
    \A i \in DOMAIN history :
        history[i].role = "tool" =>
            /\ i > 1 /\ history[i - 1].role = "assistant"
            /\ history[i].tool_call_id \in HistCallIds
            /\ history[i].tool_call_id = history[i - 1].tool_call_id

\* two round trips whose calls had different ids
C27_Witness ==
    \E i, j \in DOMAIN history :
        /\ i < j /\ history[i].role = "tool" /\ history[j].role = "tool"
        /\ history[i].tool_call_id = "call_1" /\ history[j].tool_call_id = "call_2"
        /\ history[Len(history)].role = "assistant"

(***************************************************************************)
(* Properties of the Spinner                                               *)
(***************************************************************************)
\* C29: when the controller goes on after a wrapped operation, whether the
\* operation returned or raised, the worker of its Spinner has ended; no
\* worker is alive while no operation is wrapped, and never more than one
\* worker is alive.
C29_SpinnerJoinedBeforeProceeding ==
    /\ pc \in {"spin_after", "spin_idle", "spin_done"} => sp_alive = 0
    /\ sp_alive <= 1
    /\ pc = "spin_after" => sp_event

\* the operation raised after the worker had written frames, and the
\* controller is past stop()
C29_Witness ==
    /\ pc = "spin_after" /\ sp_path = "raised"
    /\ sp_frame > 1 /\ sp_alive = 0 /\ sp_ops = 1

====
